---------------------------- MODULE Spec2Model ----------------------------
(***************************************************************************)
(* Location driver core of RetroArch (location/location_driver.c).         *)
(*                                                                         *)
(* The module's state is the registry location_drivers[], the two file     *)
(* scope globals location_driver / location_data and the two function      *)
(* scope statics of location_driver_ctl().  Every public entry point is    *)
(* one atomic action (the code is single threaded and takes no locks).     *)
(* What an entry point does to its environment (driver functions called,   *)
(* session hooks, log lines, the message queue, retroarch_fail) is         *)
(* observed in `trace`, its return value in `ret`, and the four output     *)
(* parameters of driver_location_get_position() in `out`.                  *)
(***************************************************************************)
EXTENDS Integers, Sequences, FiniteSets

(***************************************************************************)
(* Bounds and values                                                       *)
(***************************************************************************)

\* C NULL.  Descriptor pointers are modelled by the 1-based position of the
\* descriptor in location_drivers[], instance handles by 1..MaxHandles.
NULL == 0

\* How many instances the drivers can allocate in one run; once they are
\* used up a driver's init() reports failure (returns NULL).
MaxHandles == 2

\* A non-null pointer value that is no instance any driver allocated.
Wild == MaxHandles + 1

\* How far below index 0 and past the NULL sentinel the indexes reach that
\* callers pass to location_driver_find_handle().
IndexSlack == 1

\* The function slots of location_driver_t.
Slots == {"init", "free", "start", "stop", "set_interval", "get_position"}

\* Slot populations of the descriptors considered: every slot is optional.
SlotProfiles ==
  { Slots,
    {"init", "free"},
    Slots \ {"free"},
    Slots \ {"init"} }

\* The idents of location_android and location_null.
Idents == {"android", "null"}

\* Values of settings->arrays.location_driver: each ident and a name that
\* no descriptor carries.
ConfigNames == Idents \cup {"gps"}

\* A descriptor: its ident and the function slots it has set.
Descriptor(ident, slots) == [ident |-> ident, slots |-> slots]

\* location_drivers[] without its NULL sentinel: &location_android when
\* the build has ANDROID, then &location_null; and, for the build that
\* configures no driver at all, the array that holds the sentinel alone.
Registries ==
  { <<>> }
    \cup { <<Descriptor("null", q)>> : q \in SlotProfiles }
    \cup { <<Descriptor("android", p), Descriptor("null", q)>> :
             p \in SlotProfiles, q \in SlotProfiles }

\* Positions are tuples <<lat, lon, horiz_accuracy, vert_accuracy>> over the
\* values 0 (for 0.0) and 1 (for any other double).
\* Contents of the caller's four output variables before the call.
CallerBuffers == { <<1, 1, 1, 1>> }

\* What a driver's get_position may store into the four outputs.
DriverPositions == { <<0, 1, 0, 1>> }

\* enum rarch_location_ctl_state, plus a value outside the enumerators.
CtlStates ==
  { "DESTROY", "DEINIT", "SET_OWN_DRIVER", "UNSET_OWN_DRIVER", "OWNS_DRIVER",
    "SET_ACTIVE", "UNSET_ACTIVE", "IS_ACTIVE", "NONE" }

VARIABLES
  location_drivers,          \* the registry (constant after Init)
  location_driver,           \* bound descriptor, or NULL
  location_data,             \* bound instance handle, or NULL
  location_driver_active,    \* static flag of location_driver_ctl
  location_driver_data_own,  \* static flag of location_driver_ctl
  owner,                     \* owner[h]: descriptor whose init() returned h
  freed,                     \* <<d, h>>: h was passed to the free() of d
  proc,                      \* "running", "aborted" (retroarch_fail), "crashed"
  op,                        \* the last entry point called, with its inputs
  trace,                     \* what that call did to its environment
  ret,                       \* its return value: <<>> for void, else <<b>>
  out                        \* get_position's four outputs after the call

vars ==
  << location_drivers, location_driver, location_data, location_driver_active,
     location_driver_data_own, owner, freed, proc, op, trace, ret, out >>

(***************************************************************************)
(* Helpers                                                                 *)
(***************************************************************************)

\* One observed effect: a call of function fn on descriptor drv with
\* instance argument data and result res (<<>> when there is none).
Ev(fn, drv, data, res) == [fn |-> fn, drv |-> drv, data |-> data, res |-> res]

\* The inputs of an entry point, recorded in op.
Call(name, s, verbose, hook, allow) ==
  [name |-> name, s |-> s, verbose |-> verbose, hook |-> hook, allow |-> allow]

\* The inputs of an entry point that takes an index, recorded in op.
CallIdx(name, idx) ==
  [name |-> name, s |-> "", verbose |-> FALSE, hook |-> FALSE,
   allow |-> FALSE, idx |-> idx]

\* Does descriptor pointer d have function slot f set?
HasSlot(d, f) == d # NULL /\ f \in location_drivers[d].slots

\* location_driver_find_handle(idx) for an index inside the array
\* (0 .. number of descriptors; the last one reads the NULL sentinel).
LocationDriverFindHandle(idx) ==
  IF idx + 1 \in DOMAIN location_drivers THEN idx + 1 ELSE NULL

\* location_driver_find_ident(idx), same range.
LocationDriverFindIdent(idx) ==
  IF idx + 1 \in DOMAIN location_drivers
    THEN <<location_drivers[idx + 1].ident>> ELSE <<>>

\* driver_ctl(RARCH_DRIVER_CTL_FIND_INDEX): index of the first descriptor
\* whose ident equals s, -1 when there is none.
FindIndex(s) ==
  LET hits == { i \in DOMAIN location_drivers : location_drivers[i].ident = s }
  IN  IF hits = {} THEN -1
      ELSE (CHOOSE i \in hits : \A j \in hits : i <= j) - 1

\* The log lines of the verbose branch of find_location_driver().
RECURSIVE IdentLines(_)
IdentLines(d) ==
  IF LocationDriverFindHandle(d) = NULL THEN <<>>
  ELSE <<Ev("RARCH_LOG_OUTPUT", LocationDriverFindHandle(d), NULL,
            LocationDriverFindIdent(d))>> \o IdentLines(d + 1)

NotFoundLog(s) ==
  <<Ev("RARCH_ERR", NULL, NULL, <<s>>)>> \o IdentLines(0)
    \o <<Ev("RARCH_WARN", NULL, NULL, <<>>)>>

\* Variant: the fallback to the first driver is taken without any log line.
FindLocationDriverQuiet(s, verbose) ==
  LET i == FindIndex(s)
  IN  IF i >= 0
        THEN [driver |-> LocationDriverFindHandle(i), log |-> <<>>,
              fail |-> FALSE]
        ELSE [driver |-> LocationDriverFindHandle(0), log |-> <<>>,
              fail |-> LocationDriverFindHandle(0) = NULL]

\* Variant: a name that no driver carries is fatal, whatever the array holds.
FindLocationDriverStrict(s, verbose) ==
  LET i == FindIndex(s)
  IN  IF i >= 0
        THEN [driver |-> LocationDriverFindHandle(i), log |-> <<>>,
              fail |-> FALSE]
        ELSE [driver |-> LocationDriverFindHandle(0),
              log |-> IF verbose THEN NotFoundLog(s) ELSE <<>>,
              fail |-> TRUE]

\* find_location_driver(): the descriptor it binds, what it logs and
\* whether it ends in retroarch_fail(1, "find_location_driver()").
FindLocationDriver(s, verbose) ==
  LET i == FindIndex(s)
  IN  IF i >= 0
        THEN [driver |-> LocationDriverFindHandle(i), log |-> <<>>,
              fail |-> FALSE]
        ELSE [driver |-> LocationDriverFindHandle(0),
              log |-> IF verbose THEN NotFoundLog(s) ELSE <<>>,
              fail |-> LocationDriverFindHandle(0) = NULL]

\* Variant: DESTROY resets the active flag only.
CtlFlagsDestroyKeepsOwn(state, active, own) ==
  CASE state = "DESTROY"          -> <<FALSE, own>>
    [] state = "SET_OWN_DRIVER"   -> <<active, TRUE>>
    [] state = "UNSET_OWN_DRIVER" -> <<active, FALSE>>
    [] state = "SET_ACTIVE"       -> <<TRUE, own>>
    [] state = "UNSET_ACTIVE"     -> <<FALSE, own>>
    [] OTHER                      -> <<active, own>>

\* Variant: SET_ACTIVE falls through into SET_OWN_DRIVER's assignment.
CtlFlagsCoupled(state, active, own) ==
  CASE state = "DESTROY"          -> <<FALSE, FALSE>>
    [] state = "SET_OWN_DRIVER"   -> <<active, TRUE>>
    [] state = "UNSET_OWN_DRIVER" -> <<active, FALSE>>
    [] state = "SET_ACTIVE"       -> <<TRUE, TRUE>>
    [] state = "UNSET_ACTIVE"     -> <<FALSE, own>>
    [] OTHER                      -> <<active, own>>

\* The statics of location_driver_ctl() after ctl(state), as
\* <<location_driver_active, location_driver_data_own>>.
CtlFlags(state, active, own) ==
  CASE state = "DESTROY"          -> <<FALSE, FALSE>>
    [] state = "SET_OWN_DRIVER"   -> <<active, TRUE>>
    [] state = "UNSET_OWN_DRIVER" -> <<active, FALSE>>
    [] state = "SET_ACTIVE"       -> <<TRUE, own>>
    [] state = "UNSET_ACTIVE"     -> <<FALSE, own>>
    [] OTHER                      -> <<active, own>>

\* The return value of location_driver_ctl(state).
CtlReturn(state, active, own) ==
  CASE state = "OWNS_DRIVER" -> own
    [] state = "IS_ACTIVE"   -> active
    [] OTHER                 -> TRUE

\* What a driver's init() can return: NULL, or a newly allocated instance.
InitResults ==
  {NULL} \cup (IF Len(owner) < MaxHandles THEN {Len(owner) + 1} ELSE {})

(***************************************************************************)
(* Initial state                                                           *)
(***************************************************************************)
Init ==
  /\ location_drivers \in Registries
  /\ location_driver = NULL
  /\ location_data = NULL
  /\ location_driver_active = FALSE
  /\ location_driver_data_own = FALSE
  /\ owner = <<>>
  /\ freed = {}
  /\ proc = "running"
  /\ op = Call("", "", FALSE, FALSE, FALSE)
  /\ trace = <<>>
  /\ ret = <<>>
  /\ out = <<>>

(***************************************************************************)
(* Capability forwarders                                                   *)
(***************************************************************************)

\* The state the forwarders leave alone: all of the module's own state.
ModuleState ==
  << location_drivers, location_driver, location_data, location_driver_active,
     location_driver_data_own, owner, freed, proc >>

\* The condition under which driver_location_start() reaches the driver.
StartBound ==
  location_driver # NULL /\ location_data # NULL
    /\ HasSlot(location_driver, "start")

\* Variant: the call of the driver's start() is not followed by a return,
\* so control falls through to the notification.
StartEffectFallThrough(allow, result) ==
  IF StartBound
    THEN [trace |-> (IF allow
                       THEN <<Ev("start", location_driver, location_data,
                                 <<result>>)>>
                       ELSE <<>>)
                    \o <<Ev("runloop_msg_queue_push", NULL, NULL,
                            <<"Location is explicitly disabled.">>)>>,
          ret |-> <<FALSE>>]
    ELSE [trace |-> <<>>, ret |-> <<FALSE>>]

\* Variant: a start that location_allow forbids fails without a
\* notification.
StartEffectSilent(allow, result) ==
  IF StartBound /\ allow
    THEN [trace |-> <<Ev("start", location_driver, location_data,
                         <<result>>)>>,
          ret |-> <<result>>]
    ELSE [trace |-> <<>>, ret |-> <<FALSE>>]

\* What driver_location_start() does and returns: allow is
\* settings->bools.location_allow, result is what the driver's start()
\* returns if it is called.
StartEffect(allow, result) ==
  IF StartBound
    THEN IF allow
           THEN [trace |-> <<Ev("start", location_driver, location_data,
                                <<result>>)>>,
                 ret |-> <<result>>]
           ELSE [trace |-> <<Ev("runloop_msg_queue_push", NULL, NULL,
                                <<"Location is explicitly disabled.">>)>>,
                 ret |-> <<FALSE>>]
    ELSE [trace |-> <<>>, ret |-> <<FALSE>>]

\* driver_location_start().
DriverLocationStart ==
  /\ proc = "running"
  /\ \E allow \in BOOLEAN, result \in BOOLEAN :
       /\ op' = Call("start", "", FALSE, FALSE, allow)
       /\ trace' = StartEffect(allow, result).trace
       /\ ret' = StartEffect(allow, result).ret
  /\ out' = <<>>
  /\ UNCHANGED ModuleState

\* Variant: stop is forwarded without looking at location_data.
StopBoundNoData ==
  location_driver # NULL /\ HasSlot(location_driver, "stop")

\* The condition under which driver_location_stop() reaches the driver.
StopBound ==
  location_driver # NULL /\ HasSlot(location_driver, "stop")
    /\ location_data # NULL

\* driver_location_stop().
DriverLocationStop ==
  /\ proc = "running"
  /\ op' = Call("stop", "", FALSE, FALSE, FALSE)
  /\ trace' = IF StopBound
                THEN <<Ev("stop", location_driver, location_data, <<>>)>>
                ELSE <<>>
  /\ ret' = <<>>
  /\ out' = <<>>
  /\ UNCHANGED ModuleState

\* Variant: set_interval is forwarded without looking at location_data.
SetIntervalBoundNoData ==
  location_driver # NULL /\ HasSlot(location_driver, "set_interval")

\* The condition under which driver_location_set_interval() reaches the
\* driver.
SetIntervalBound ==
  location_driver # NULL /\ HasSlot(location_driver, "set_interval")
    /\ location_data # NULL

\* driver_location_set_interval(); the two intervals are passed through
\* to the driver unchanged and are not modelled.
DriverLocationSetInterval ==
  /\ proc = "running"
  /\ op' = Call("set_interval", "", FALSE, FALSE, FALSE)
  /\ trace' = IF SetIntervalBound
                THEN <<Ev("set_interval", location_driver, location_data,
                          <<>>)>>
                ELSE <<>>
  /\ ret' = <<>>
  /\ out' = <<>>
  /\ UNCHANGED ModuleState

\* The condition under which driver_location_get_position() reaches the
\* driver.
GetPositionBound ==
  location_driver # NULL /\ HasSlot(location_driver, "get_position")
    /\ location_data # NULL

\* Variant: the failure path forgets to clear *vert_accuracy.
FailedPositionPartial(buf) == <<0, 0, 0, buf[4]>>

\* The outputs of driver_location_get_position() when it does not reach
\* the driver; buf is what the caller's variables held.
FailedPosition(buf) == <<0, 0, 0, 0>>

\* driver_location_get_position(): buf is what the caller's four variables
\* hold before the call; a driver that is reached returns result and
\* stores pos (or leaves the caller's values).
DriverLocationGetPosition ==
  /\ proc = "running"
  /\ op' = Call("get_position", "", FALSE, FALSE, FALSE)
  /\ \E buf \in CallerBuffers :
       IF GetPositionBound
         THEN \E result \in BOOLEAN, pos \in DriverPositions \cup {buf} :
                /\ trace' = <<Ev("get_position", location_driver,
                                 location_data, <<result>>)>>
                /\ ret' = <<result>>
                /\ out' = pos
         ELSE /\ trace' = <<>>
              /\ ret' = <<FALSE>>
              /\ out' = FailedPosition(buf)
  /\ UNCHANGED ModuleState

(***************************************************************************)
(* Lifecycle                                                               *)
(***************************************************************************)

\* Variant: the guard looks at the descriptor instead of the instance.
InitGuardOnDriver == location_driver # NULL

\* The guard of init_location(): the interface is already initialized.
InitGuard == location_data # NULL

\* Variant: a failed init leaves the active flag as it was.
InitActiveStale(h) == location_driver_active

\* Variant: a successful init marks the driver active.
InitActiveOnSuccess(h) == h # NULL

\* location_driver_active after location_driver->init() has returned h:
\* a failed init calls location_driver_ctl(RARCH_LOCATION_CTL_UNSET_ACTIVE).
InitActive(h) ==
  IF h = NULL
    THEN CtlFlags("UNSET_ACTIVE", location_driver_active,
                  location_driver_data_own)[1]
    ELSE location_driver_active

\* Variant: the initialized hook is called for a successful init only.
InitTailHookOnSuccess(d, h, log, hook) ==
  /\ location_driver' = d
  /\ location_data' = h
  /\ location_driver_active' = InitActive(h)
  /\ trace' = log \o <<Ev("init", d, NULL, <<h>>)>>
               \o (IF h = NULL THEN <<Ev("RARCH_ERR", NULL, NULL, <<>>)>>
                   ELSE IF hook THEN <<Ev("initialized", NULL, NULL, <<>>)>>
                   ELSE <<>>)
  /\ proc' = proc

\* The tail of init_location() once location_driver->init() has returned
\* h: the failure branch and the initialized hook.  log is what
\* find_location_driver() logged, d the descriptor it bound.
InitTail(d, h, log, hook) ==
  /\ location_driver' = d
  /\ location_data' = h
  /\ location_driver_active' = InitActive(h)
  /\ trace' = log \o <<Ev("init", d, NULL, <<h>>)>>
               \o (IF h = NULL THEN <<Ev("RARCH_ERR", NULL, NULL, <<>>)>>
                              ELSE <<>>)
               \o (IF hook THEN <<Ev("initialized", NULL, NULL, <<>>)>>
                           ELSE <<>>)
  /\ proc' = proc

\* init_location() past its guard: find_location_driver(), the driver's
\* init() and the tail.
InitRun(s, verbose, hook) ==
  LET f == FindLocationDriver(s, verbose) IN
  IF f.fail
    THEN \* retroarch_fail() does not return
         /\ location_driver' = f.driver
         /\ trace' = f.log \o <<Ev("retroarch_fail", NULL, NULL,
                                   <<1, "find_location_driver()">>)>>
         /\ proc' = "aborted"
         /\ UNCHANGED << location_data, location_driver_active, owner >>
    ELSE IF HasSlot(f.driver, "init")
      THEN \E h \in InitResults :
             /\ InitTail(f.driver, h, f.log, hook)
             /\ owner' = IF h = NULL THEN owner ELSE Append(owner, f.driver)
      ELSE \* a call through a null function pointer: the process dies,
           \* or control comes back with an arbitrary pointer value
           \/ /\ location_driver' = f.driver
              /\ trace' = f.log \o <<Ev("init", f.driver, NULL, <<>>)>>
              /\ proc' = "crashed"
              /\ UNCHANGED << location_data, location_driver_active, owner >>
           \/ \E h \in {NULL, Wild} :
                /\ InitTail(f.driver, h, f.log, hook)
                /\ owner' = owner

\* init_location(): hook says whether location_cb.initialized is set, s is
\* settings->arrays.location_driver, verbose is verbosity_is_enabled().
InitLocation ==
  /\ proc = "running"
  /\ \E hook \in BOOLEAN :
       IF InitGuard
         THEN /\ op' = Call("init", "", FALSE, hook, FALSE)
              /\ trace' = <<>>
              /\ UNCHANGED << location_driver, location_data,
                              location_driver_active, owner, proc >>
         ELSE \E s \in ConfigNames, verbose \in BOOLEAN :
                /\ op' = Call("init", s, verbose, hook, FALSE)
                /\ InitRun(s, verbose, hook)
  /\ ret' = <<>>
  /\ out' = <<>>
  /\ UNCHANGED << location_drivers, location_driver_data_own, freed >>

\* Variant: location_data is cleared inside the test, after the free.
UninitLocationGuardedClear(hook) ==
  IF location_data # NULL /\ location_driver # NULL
    THEN /\ trace' =
              (IF hook THEN <<Ev("deinitialized", NULL, NULL, <<>>)>>
                       ELSE <<>>)
              \o (IF HasSlot(location_driver, "free")
                    THEN <<Ev("free", location_driver, location_data, <<>>)>>
                    ELSE <<>>)
         /\ freed' = IF HasSlot(location_driver, "free")
                       THEN freed \cup {<<location_driver, location_data>>}
                       ELSE freed
         /\ location_data' = NULL
    ELSE /\ trace' = <<>>
         /\ UNCHANGED << freed, location_data >>

\* Variant: the instance is freed before the deinitialized hook is called.
UninitLocationFreeFirst(hook) ==
  /\ IF location_data # NULL /\ location_driver # NULL
       THEN /\ trace' =
                 (IF HasSlot(location_driver, "free")
                    THEN <<Ev("free", location_driver, location_data, <<>>)>>
                    ELSE <<>>)
                 \o (IF hook THEN <<Ev("deinitialized", NULL, NULL, <<>>)>>
                             ELSE <<>>)
            /\ freed' = IF HasSlot(location_driver, "free")
                          THEN freed \cup {<<location_driver, location_data>>}
                          ELSE freed
       ELSE /\ trace' = <<>>
            /\ freed' = freed
  /\ location_data' = NULL

\* uninit_location(): hook says whether location_cb.deinitialized is set.
UninitLocation(hook) ==
  /\ IF location_data # NULL /\ location_driver # NULL
       THEN /\ trace' =
                 (IF hook THEN <<Ev("deinitialized", NULL, NULL, <<>>)>>
                          ELSE <<>>)
                 \o (IF HasSlot(location_driver, "free")
                       THEN <<Ev("free", location_driver, location_data,
                                 <<>>)>>
                       ELSE <<>>)
            /\ freed' = IF HasSlot(location_driver, "free")
                          THEN freed \cup {<<location_driver, location_data>>}
                          ELSE freed
       ELSE /\ trace' = <<>>
            /\ freed' = freed
  /\ location_data' = NULL

(***************************************************************************)
(* Control entry point                                                     *)
(***************************************************************************)

\* location_driver after ctl(state).
CtlDriver(state, driver) == IF state = "DESTROY" THEN NULL ELSE driver

\* location_driver_ctl(state, data).
LocationDriverCtl(state) ==
  /\ proc = "running"
  /\ IF state = "DEINIT"
       THEN \E hook \in BOOLEAN :
              /\ op' = Call(state, "", FALSE, hook, FALSE)
              /\ UninitLocation(hook)
       ELSE /\ op' = Call(state, "", FALSE, FALSE, FALSE)
            /\ trace' = <<>>
            /\ UNCHANGED << location_data, freed >>
  /\ location_driver' = CtlDriver(state, location_driver)
  /\ location_driver_active' =
       CtlFlags(state, location_driver_active, location_driver_data_own)[1]
  /\ location_driver_data_own' =
       CtlFlags(state, location_driver_active, location_driver_data_own)[2]
  /\ ret' = <<CtlReturn(state, location_driver_active,
                        location_driver_data_own)>>
  /\ out' = <<>>
  /\ UNCHANGED << location_drivers, owner, proc >>

(***************************************************************************)
(* Registry lookup                                                         *)
(***************************************************************************)

\* location_drivers[idx] is an element of the array: a descriptor or the
\* NULL sentinel.
InArray(idx) == idx \in 0..Len(location_drivers)

\* location_driver_find_handle(idx) as an entry point.  The function reads
\* location_drivers[idx] without comparing idx to anything; outside the
\* array the read dies or yields whatever pointer value lies there.
FindHandle ==
  /\ proc = "running"
  /\ \E idx \in (0 - IndexSlack)..(Len(location_drivers) + IndexSlack) :
       /\ op' = CallIdx("find_handle", idx)
       /\ IF InArray(idx)
            THEN /\ ret' = <<LocationDriverFindHandle(idx)>>
                 /\ proc' = proc
            ELSE \/ /\ ret' = <<>>
                    /\ proc' = "crashed"
                 \/ \E v \in {NULL, Wild} :
                      /\ ret' = <<v>>
                      /\ proc' = proc
  /\ trace' = <<>>
  /\ out' = <<>>
  /\ UNCHANGED << location_drivers, location_driver, location_data,
                  location_driver_active, location_driver_data_own,
                  owner, freed >>

(***************************************************************************)
(* Specification                                                           *)
(***************************************************************************)
Next ==
  \/ InitLocation
  \/ \E state \in CtlStates : LocationDriverCtl(state)
  \/ DriverLocationStart
  \/ DriverLocationStop
  \/ DriverLocationSetInterval
  \/ DriverLocationGetPosition
  \/ FindHandle

Spec == Init /\ [][Next]_vars

(***************************************************************************)
(* Properties                                                              *)
(***************************************************************************)

\* The capability forwarders.
Forwarders == {"start", "stop", "set_interval", "get_position"}

\* The events of a trace that are calls of function fn.
CallsOf(tr, fn) == { i \in DOMAIN tr : tr[i].fn = fn }

\* The one notification driver_location_start() can emit.
Notification ==
  Ev("runloop_msg_queue_push", NULL, NULL,
     <<"Location is explicitly disabled.">>)

\* Instances that a descriptor with a free slot returned from its init and
\* that were not passed to that descriptor's free since.
LiveInstances ==
  { h \in DOMAIN owner :
      HasSlot(owner[h], "free") /\ <<owner[h], h>> \notin freed }

\* C1: after any sequence of operations at most one driver instance is
\* live (returned by a descriptor's init and not yet passed to its free).
C1_AtMostOneLive == Cardinality(LiveInstances) <= 1

\* C2: init() called while an instance is bound is a no-op: no driver
\* selection, no driver init, no initialized hook, and descriptor, instance,
\* both flags and the set of allocated instances stay as they are.
C2_SecondInitNoOp ==
  [][ (op'.name = "init" /\ location_data # NULL)
        => /\ trace' = <<>>
           /\ location_driver' = location_driver
           /\ location_data' = location_data
           /\ location_driver_active' = location_driver_active
           /\ location_driver_data_own' = location_driver_data_own
           /\ owner' = owner
           /\ freed' = freed ]_vars

\* A second init() with the initialized hook registered returned while the
\* one instance allocated so far is bound.
C2_Witness ==
  /\ op.name = "init" /\ op.hook /\ trace = <<>>
  /\ location_data \in DOMAIN owner /\ Len(owner) = 1
  /\ location_driver # NULL

\* C3: in every reachable state, an instance handle that is present comes
\* with a descriptor reference that is present.
C3_InstanceImpliesDescriptor ==
  location_data # NULL => location_driver # NULL

\* C4: a forwarder invokes the descriptor's start, stop, set_interval or
\* get_position only from a state where the descriptor, that slot and the
\* instance are present, on that descriptor and instance, and start only
\* when location_allow is true.
C4_ForwardOnlyWhenBound ==
  [][ \A i \in DOMAIN trace' :
        trace'[i].fn \in Forwarders
          => /\ op'.name = trace'[i].fn
             /\ location_driver # NULL
             /\ trace'[i].fn \in location_drivers[location_driver].slots
             /\ location_data # NULL
             /\ trace'[i].drv = location_driver
             /\ trace'[i].data = location_data
             /\ (trace'[i].fn = "start" => op'.allow) ]_vars

\* A forwarder reached its driver function on an allocated instance.
C4_Witness ==
  /\ op.name \in Forwarders
  /\ CallsOf(trace, op.name) # {}
  /\ location_data \in DOMAIN owner

\* C5: get_position() called where the descriptor, its get_position slot
\* or the instance is absent returns false with all four outputs 0.0.
C5_GetPositionFailureZeroes ==
  [][ ( /\ op'.name = "get_position"
        /\ \/ location_driver = NULL
           \/ "get_position" \notin location_drivers[location_driver].slots
           \/ location_data = NULL )
        => /\ ret' = <<FALSE>>
           /\ out' = <<0, 0, 0, 0>>
           /\ trace' = <<>> ]_vars

\* get_position() failed after DESTROY took the descriptor away from a
\* bound instance.
C5_Witness ==
  /\ op.name = "get_position" /\ ret = <<FALSE>> /\ out = <<0, 0, 0, 0>>
  /\ location_driver = NULL /\ location_data \in DOMAIN owner

\* C6 as stated: start() with descriptor and instance present and
\* location_allow false fails, does not reach the driver and emits exactly
\* one notification.
C6_Original ==
  [][ ( /\ op'.name = "start" /\ ~op'.allow
        /\ location_driver # NULL /\ location_data # NULL )
        => /\ ret' = <<FALSE>>
           /\ trace' = <<Notification>> ]_vars

\* C6 amended: the same, for a descriptor whose start slot is present.
C6_DisallowedStartNotifies ==
  [][ ( /\ op'.name = "start" /\ ~op'.allow
        /\ location_driver # NULL /\ location_data # NULL
        /\ "start" \in location_drivers[location_driver].slots )
        => /\ ret' = <<FALSE>>
           /\ trace' = <<Notification>> ]_vars

\* A start() that location_allow forbade on a bound, startable instance.
C6_Witness ==
  /\ op.name = "start" /\ ~op.allow /\ trace = <<Notification>>
  /\ ret = <<FALSE>>
  /\ HasSlot(location_driver, "start") /\ location_data \in DOMAIN owner

\* C7: start() on a bound, startable instance with location_allow true
\* calls the driver's start once on the bound instance, returns that
\* call's result and emits no notification.
C7_AllowedStartForwards ==
  [][ ( /\ op'.name = "start" /\ op'.allow
        /\ location_driver # NULL /\ location_data # NULL
        /\ "start" \in location_drivers[location_driver].slots )
        => /\ Len(trace') = 1
           /\ trace'[1].fn = "start"
           /\ trace'[1].drv = location_driver
           /\ trace'[1].data = location_data
           /\ ret' = trace'[1].res
           /\ ret' \in {<<TRUE>>, <<FALSE>>} ]_vars

\* An allowed start() returned the driver's success.
C7_Witness ==
  /\ op.name = "start" /\ op.allow /\ ret = <<TRUE>>
  /\ CallsOf(trace, "start") = {1}
  /\ location_data \in DOMAIN owner

\* C8: with no instance bound every capability call fails silently:
\* start() and get_position() return false, stop() and set_interval()
\* return nothing, nothing is called or notified, and binding and flags
\* stay as they are.
C8_UnboundCallsFailSilently ==
  [][ (op'.name \in Forwarders /\ location_data = NULL)
        => /\ trace' = <<>>
           /\ ret' = (IF op'.name \in {"start", "get_position"}
                        THEN <<FALSE>> ELSE <<>>)
           /\ location_driver' = location_driver
           /\ location_data' = location_data
           /\ location_driver_active' = location_driver_active
           /\ location_driver_data_own' = location_driver_data_own ]_vars

\* set_interval() was called after an init and a deinit, with the descriptor
\* still selected, its slot present and no instance.
C8_Witness ==
  /\ op.name = "set_interval" /\ trace = <<>>
  /\ location_data = NULL /\ HasSlot(location_driver, "set_interval")
  /\ freed # {}

\* C9: an init() that passes its guard and whose driver init returns no
\* handle clears the active flag, leaves the instance absent and does not
\* end the process, so that init() can be tried again.
C9_FailedInitDeactivates ==
  [][ ( /\ op'.name = "init" /\ location_data = NULL
        /\ \E i \in CallsOf(trace', "init") : trace'[i].res = <<NULL>> )
        => /\ location_driver_active' = FALSE
           /\ location_data' = NULL
           /\ proc' = "running" ]_vars

\* A driver's init failed (a descriptor that has an init slot returned
\* NULL), the initialized hook being registered.
C9_Witness ==
  /\ op.name = "init" /\ HasSlot(location_driver, "init")
  /\ \E i \in CallsOf(trace, "init") : trace[i].res = <<NULL>>
  /\ location_data = NULL /\ ~location_driver_active /\ proc = "running"

\* C10: ctl(DESTROY) clears both flags and the descriptor reference, so
\* that IS_ACTIVE and OWNS_DRIVER asked next return false; it calls neither
\* free nor the deinitialized hook and leaves the instance handle alone.
C10_DestroyResets ==
  [][ /\ op'.name = "DESTROY"
        => /\ location_driver_active' = FALSE
           /\ location_driver_data_own' = FALSE
           /\ location_driver' = NULL
           /\ location_data' = location_data
           /\ trace' = <<>>
           /\ freed' = freed
      /\ (op.name = "DESTROY" /\ op'.name \in {"IS_ACTIVE", "OWNS_DRIVER"})
        => ret' = <<FALSE>> ]_vars

\* DESTROY was applied to a bound instance, which stays bound and unfreed.
C10_Witness ==
  /\ op.name = "DESTROY"
  /\ location_data \in DOMAIN owner
  /\ \A d \in DOMAIN location_drivers : <<d, location_data>> \notin freed
  /\ location_driver = NULL

\* The entries of the registry whose ident is s.
Matches(s) ==
  { k \in DOMAIN location_drivers : location_drivers[k].ident = s }

\* The trace holds the diagnostic for a configured name s that was not found.
NotFoundDiagnostic(tr, s) ==
  \E i \in CallsOf(tr, "RARCH_ERR") : tr[i].res = <<s>>

\* C11 as stated: driver selection over a non-empty registry binds the
\* entry the configured name matches, and binds the first entry and records
\* a diagnostic when the name matches none.
C11_Original ==
  [][ ( /\ op'.name = "init" /\ location_data = NULL
        /\ location_drivers # <<>> )
        => /\ \A k \in Matches(op'.s) : location_driver' = k
           /\ Matches(op'.s) = {}
                => /\ location_driver' = 1
                   /\ NotFoundDiagnostic(trace', op'.s) ]_vars

\* C11 amended: the same, the diagnostic being recorded when verbose
\* logging is enabled.
C11_SelectionBindsMatchOrFirst ==
  [][ ( /\ op'.name = "init" /\ location_data = NULL
        /\ location_drivers # <<>> )
        => /\ \A k \in Matches(op'.s) : location_driver' = k
           /\ Matches(op'.s) = {}
                => /\ location_driver' = 1
                   /\ op'.verbose => NotFoundDiagnostic(trace', op'.s) ]_vars

\* Selection with verbose logging fell back to the first of two drivers for
\* a name neither carries, and logged it.
C11_Witness ==
  /\ op.name = "init" /\ op.verbose /\ Matches(op.s) = {}
  /\ Len(location_drivers) = 2 /\ location_driver = 1
  /\ NotFoundDiagnostic(trace, op.s)

\* C12: the process is aborted (retroarch_fail with code 1 and the tag
\* "find_location_driver()") exactly by a driver selection that runs against
\* the registry without entries; no other call reaches it.
C12_FatalIffEmptyRegistry ==
  [][ /\ (proc = "running" /\ proc' = "aborted")
        <=> ( /\ proc = "running" /\ op'.name = "init"
              /\ location_data = NULL /\ location_drivers = <<>> )
      /\ CallsOf(trace', "retroarch_fail") # {}
        <=> (proc = "running" /\ proc' = "aborted")
      /\ \A i \in CallsOf(trace', "retroarch_fail") :
           trace'[i].res = <<1, "find_location_driver()">> ]_vars

\* Selection ran against the registry without entries and aborted.
C12_Witness ==
  /\ proc = "aborted" /\ location_drivers = <<>>
  /\ CallsOf(trace, "retroarch_fail") = {Len(trace)}

\* C13: get(i) returns the descriptor registered at position i for every i
\* in the populated range, and none for every other index (the registry
\* length, greater, or negative).
C13_GetReturnsEntryOrNone ==
  [][ op'.name = "find_handle"
        => ret' = << IF op'.idx >= 0 /\ op'.idx < Len(location_drivers)
                       THEN op'.idx + 1 ELSE NULL >> ]_vars

\* C14: after ctl(DEINIT) the instance handle is absent, whatever was bound
\* before; called with no instance, DEINIT calls neither the deinitialized
\* hook nor free and changes no state.
C14_DeinitClearsInstance ==
  [][ op'.name = "DEINIT"
        => /\ location_data' = NULL
           /\ location_data = NULL
                => /\ trace' = <<>>
                   /\ UNCHANGED << location_drivers, location_driver,
                                   location_data, location_driver_active,
                                   location_driver_data_own, owner, freed,
                                   proc >> ]_vars

\* DEINIT cleared an instance whose descriptor DESTROY had taken away, the
\* deinitialized hook being registered: nothing was called.
C14_Witness ==
  /\ op.name = "DEINIT" /\ op.hook /\ trace = <<>>
  /\ location_data = NULL /\ location_driver = NULL
  /\ owner # <<>> /\ freed = {}

\* The driver's init was called in the trace and returned.
InitReturned(tr) ==
  \E i \in CallsOf(tr, "init") : Len(tr[i].res) = 1

\* The initialized hook is called exactly once in the trace, after the call
\* of the driver's init.
HookOnceAfterInit(tr) ==
  /\ Cardinality(CallsOf(tr, "initialized")) = 1
  /\ CallsOf(tr, "init") # {}
  /\ \A i \in CallsOf(tr, "init"), j \in CallsOf(tr, "initialized") : i < j

C16_DeinitOrder ==
  [][ op'.name = "DEINIT"
        => IF location_driver # NULL /\ location_data # NULL
             THEN /\ trace' =
                       (IF op'.hook
                          THEN <<Ev("deinitialized", NULL, NULL, <<>>)>>
                          ELSE <<>>)
                       \o (IF "free" \in location_drivers[location_driver].slots
                             THEN <<Ev("free", location_driver, location_data,
                                       <<>>)>>
                             ELSE <<>>)
                  /\ location_data' = NULL
             ELSE trace' = <<>> ]_vars

\* A deinit called the deinitialized hook and then free on an allocated
\* instance, and the handle is cleared.
C16_Witness ==
  /\ op.name = "DEINIT" /\ Len(trace) = 2
  /\ trace[1].fn = "deinitialized" /\ trace[2].fn = "free"
  /\ trace[2].data \in DOMAIN owner /\ trace[2].drv = location_driver
  /\ location_data = NULL

\* C17: SET_ACTIVE and UNSET_ACTIVE change the active flag only,
\* SET_OWN_DRIVER and UNSET_OWN_DRIVER the owns_driver flag only, and none
\* of them the binding; the two queries return their flag and change
\* nothing; an opcode outside the enumeration changes nothing; every opcode
\* but the queries returns true.
C17_FlagsOrthogonal ==
  [][ /\ op'.name \in {"SET_ACTIVE", "UNSET_ACTIVE"}
        => /\ location_driver_active' = (op'.name = "SET_ACTIVE")
           /\ UNCHANGED << location_driver_data_own, location_driver,
                           location_data >>
      /\ op'.name \in {"SET_OWN_DRIVER", "UNSET_OWN_DRIVER"}
        => /\ location_driver_data_own' = (op'.name = "SET_OWN_DRIVER")
           /\ UNCHANGED << location_driver_active, location_driver,
                           location_data >>
      /\ op'.name \in {"IS_ACTIVE", "OWNS_DRIVER", "NONE"}
        => UNCHANGED << location_driver_active, location_driver_data_own,
                        location_driver, location_data, owner, freed >>
      /\ op'.name = "IS_ACTIVE" => ret' = <<location_driver_active>>
      /\ op'.name = "OWNS_DRIVER" => ret' = <<location_driver_data_own>>
      /\ op'.name \in CtlStates \ {"IS_ACTIVE", "OWNS_DRIVER"}
        => ret' = <<TRUE>> ]_vars

\* SET_ACTIVE was applied to a bound driver that is not owned: it is active
\* and still not owned.
C17_Witness ==
  /\ op.name = "SET_ACTIVE" /\ ret = <<TRUE>>
  /\ location_driver_active /\ ~location_driver_data_own
  /\ location_data \in DOMAIN owner /\ location_driver # NULL

\* C18: the active flag is false initially, becomes true by SET_ACTIVE
\* only, is false after UNSET_ACTIVE, DESTROY and an init() whose driver
\* init returned no handle, and is left as it is by a successful init().
C18_ActiveOnlyBySetActive ==
  /\ ~location_driver_active
  /\ [][ /\ (location_driver_active' /\ ~location_driver_active)
             => op'.name = "SET_ACTIVE"
         /\ op'.name \in {"UNSET_ACTIVE", "DESTROY"}
             => ~location_driver_active'
         /\ ( /\ op'.name = "init" /\ location_data = NULL
              /\ \E i \in CallsOf(trace', "init") : trace'[i].res = <<NULL>> )
             => ~location_driver_active'
         /\ (op'.name = "init" /\ location_data' # NULL)
             => location_driver_active' = location_driver_active ]_vars

\* A first init() succeeded and the driver is not active.
C18_Witness ==
  /\ op.name = "init" /\ CallsOf(trace, "init") # {}
  /\ location_data = 1 /\ Len(owner) = 1 /\ freed = {}
  /\ ~location_driver_active

\* C19: every call of a descriptor's init, start, stop, free, set_interval
\* or get_position is a call of a slot that the descriptor has set.
C19_NoAbsentSlotCalled ==
  \A i \in DOMAIN trace :
    trace[i].fn \in Slots
      => /\ trace[i].drv # NULL
         /\ trace[i].fn \in location_drivers[trace[i].drv].slots

=============================================================================
